---- MODULE Spec2Model ----
(***************************************************************************)
(* TheNewsAPI MCP server: the tool layer (server.py: search, get_article)  *)
(* and the HTTP client behind it (thenewsapi_client.py: search_news,       *)
(* search_news_by_uuid, search_similar_news_by_uuid).                      *)
(*                                                                         *)
(* One invocation at a time is followed from the call to its return.  A    *)
(* call either returns at once (input rejected) or issues one GET and      *)
(* blocks ("waiting"); the upstream then answers ("responded") and the     *)
(* rest of the handler runs ("done").                                      *)
(*                                                                         *)
(* Python values: a str that the code indexes (the query) is a sequence of *)
(* one-character strings; other scalars are strings; a list is             *)
(* [type |-> "list", items |-> <<...>>], a dict [type |-> "dict",          *)
(* obj |-> f] with f a function on its keys.  JSON values in a response    *)
(* body are tagged the same way ("array", "object", "string", "null").     *)
(***************************************************************************)
EXTENDS Integers, Sequences, FiniteSets, TLC

VARIABLES pc, op, args, request, sent, response, gw, ret

vars == <<pc, op, args, request, sent, response, gw, ret>>

-----------------------------------------------------------------------------
(* Bounds of the model *)

\* longest run of whitespace put before and after a query body
MaxPad == 1
\* largest limit argument tried (the smallest is -1)
MaxLimitArg == 5
\* longest upstream "data" array
MaxItems == 4

(* Program constants *)

\* thenewsapi_client.py:44  len(trimmed_query) > 300
MaxQueryLen == 300
\* thenewsapi_client.py:49  trimmed_query[:100]
TruncLen == 100
\* the limit used for a non-positive limit
DefaultLimit == 1
\* the cap on the limit
LimitCap == 3

-----------------------------------------------------------------------------
(* Python values, each tagged with its type *)

PyNone == [type |-> "NoneType"]
PyStr(s) == [type |-> "str", s |-> s]
PyInt(n) == [type |-> "int", n |-> n]
PyList(items) == [type |-> "list", items |-> items]
PyDict(f) == [type |-> "dict", obj |-> f]
EmptyList == PyList(<<>>)

\* bool(v)
Truthy(v) ==
    CASE v.type = "NoneType" -> FALSE
      [] v.type = "str" -> v.s # ""
      [] v.type = "int" -> v.n # 0
      [] v.type = "list" -> v.items # <<>>
      [] v.type = "dict" -> DOMAIN v.obj # {}

\* dict.get(key, default) on the key-value function of a dict
Get(f, key, default) == IF key \in DOMAIN f THEN f[key] ELSE default

\* the characters str.strip() removes, here space and tab
Whitespace == {" ", "\t"}

RECURSIVE LStrip(_)
LStrip(s) ==
    IF s = <<>> \/ Head(s) \notin Whitespace THEN s ELSE LStrip(Tail(s))

RECURSIVE RStrip(_)
RStrip(s) ==
    IF s = <<>> \/ s[Len(s)] \notin Whitespace THEN s
    ELSE RStrip(SubSeq(s, 1, Len(s) - 1))

\* str.strip()
Strip(s) == RStrip(LStrip(s))

\* s[:n]
Prefix(s, n) == SubSeq(s, 1, IF Len(s) < n THEN Len(s) ELSE n)

\* "not query or not query.strip()" on a str
Blank(s) == s = <<>> \/ Strip(s) = <<>>

-----------------------------------------------------------------------------
(* Exceptions: the classes an exception is an instance of *)

Bases(exc) ==
    CASE exc = "Timeout" -> {"Timeout", "RequestException", "Exception"}
      [] exc = "ConnectionError" ->
             {"ConnectionError", "RequestException", "Exception"}
      [] exc = "HTTPError" -> {"HTTPError", "RequestException", "Exception"}
      [] exc = "JSONDecodeError" ->
             {"JSONDecodeError", "RequestException", "ValueError", "Exception"}
      [] exc = "AttributeError" -> {"AttributeError", "Exception"}
      [] exc = "TypeError" -> {"TypeError", "Exception"}
      [] exc = "KeyError" -> {"KeyError", "LookupError", "Exception"}

\* the outcome of a block of code: a value, or an exception on its way out
Returns(v) == [exc |-> "none", val |-> v]
Raises(e) == [exc |-> e, val |-> PyNone]

\* try: body / except <clauses>: return []
TryExcept(body, clauses) ==
    IF body.exc = "none" THEN body
    ELSE IF \E i \in 1..Len(clauses) : clauses[i] \in Bases(body.exc)
         THEN Returns(EmptyList)
         ELSE body

-----------------------------------------------------------------------------
(* TheNewsAPIClient *)

\* self.access_token, self.domains, self.languages
AccessToken == "token"
Domains == <<"nytimes.com", "bbc.com", "apnews.com">>
Languages == <<"en">>

\* search_news: "if not query or not query.strip()"
QueryEmpty(query) == Blank(query)

\* a clamp that caps every positive limit
SearchNewsLimitAlwaysCapped(limit) ==
    IF limit <= 0 THEN DefaultLimit ELSE LimitCap

\* search_news: the clamp of limit
SearchNewsLimit(limit) ==
    IF limit <= 0 THEN DefaultLimit
    ELSE IF limit > LimitCap THEN LimitCap
    ELSE limit

\* a truncation to the length that triggers it
TrimmedQueryCutAtMax(query) ==
    LET trimmed_query == Strip(query)
    IN  IF Len(trimmed_query) > MaxQueryLen
        THEN Prefix(trimmed_query, MaxQueryLen)
        ELSE trimmed_query

\* search_news: trimmed_query
TrimmedQuery(query) ==
    LET trimmed_query == Strip(query)
    IN  IF Len(trimmed_query) > MaxQueryLen
        THEN Prefix(trimmed_query, TruncLen)
        ELSE trimmed_query

\* search_news: the GET it issues
SearchNewsRequest(query, categories, limit) ==
    LET params == [api_token |-> AccessToken,
                   search |-> TrimmedQuery(query),
                   limit |-> SearchNewsLimit(limit),
                   domains |-> Domains,
                   language |-> Languages]
    IN  [url |-> "https://api.thenewsapi.com/v1/news/all",
         params |-> IF Truthy(categories)
                    THEN [k \in DOMAIN params \cup {"categories"} |->
                            IF k = "categories" THEN categories ELSE params[k]]
                    ELSE params]

\* the Article dict built from one upstream item
Article(item, title) ==
    PyDict([title |-> title,
            description |-> Get(item, "description", PyStr("")),
            snippet |-> Get(item, "snippet", PyStr("")),
            uuid |-> Get(item, "uuid", PyInt(0)),
            published_at |-> Get(item, "published_at", PyStr("")),
            url |-> Get(item, "url", PyStr("")),
            source |-> Get(item, "source", PyInt(0))])

\* a filter that drops only the items without a title key
HasTitleNotNone(title) == title.type # "NoneType"

\* search_news: "if not title: continue", negated
HasTitle(title) == Truthy(title)

\* the loop over search_results; results is the list built so far
RECURSIVE MapItems(_, _)
MapItems(search_results, results) ==
    IF search_results = <<>> THEN Returns(PyList(results))
    ELSE LET item == Head(search_results)
         IN  IF item.type # "dict" THEN Raises("AttributeError")
             ELSE LET title == Get(item.obj, "title", PyNone)
                  IN  IF ~HasTitle(title)
                      THEN MapItems(Tail(search_results), results)
                      ELSE MapItems(Tail(search_results),
                                    Append(results, Article(item.obj, title)))

\* requests.get, raise_for_status and response.json() on the answer
ResponseJson(resp) ==
    CASE resp.kind = "timeout" -> Raises("Timeout")
      [] resp.kind = "connection_error" -> Raises("ConnectionError")
      [] resp.kind = "http_error" -> Raises("HTTPError")
      [] resp.kind = "invalid_json" -> Raises("JSONDecodeError")
      [] resp.kind = "json" -> Returns(resp.body)

\* "error" in data / "warnings" in data
Has(data, key) ==
    CASE data.type = "dict" -> key \in DOMAIN data.obj
      [] data.type = "list" -> FALSE

\* the part of the try block after response.json() that search_news and
\* search_similar_news_by_uuid share: the error field, the warnings, the items
ListBody(data) ==
    IF Has(data, "error")
    THEN IF data.obj["error"].type # "dict" THEN Raises("AttributeError")
         ELSE Returns(EmptyList)
    ELSE IF Has(data, "warnings") /\ data.obj["warnings"].type # "dict"
    THEN Raises("AttributeError")
    ELSE IF data.type # "dict" THEN Raises("AttributeError")
    ELSE LET search_results == Get(data.obj, "data", EmptyList)
         IN  IF search_results.type # "list" THEN Raises("TypeError")
             ELSE MapItems(search_results.items, <<>>)

\* handlers for the HTTP status and the JSON decoding only
SearchNewsExceptStatusAndJson == <<"HTTPError", "ValueError">>

\* search_news: the except clauses, in order
SearchNewsExcept ==
    <<"Timeout", "ConnectionError", "HTTPError", "RequestException",
      "ValueError", "Exception">>

\* search_news: from the answer to the return value
SearchNewsReturn(resp) ==
    LET json == ResponseJson(resp)
    IN  TryExcept(IF json.exc # "none" THEN json ELSE ListBody(json.val),
                  SearchNewsExcept)

\* search_news: the guard, then the GET; the call returns at once on a blank
\* query and otherwise blocks on the request
SearchNewsCall(query, categories, limit) ==
    IF QueryEmpty(query)
    THEN [returned |-> TRUE, out |-> Returns(EmptyList)]
    ELSE [returned |-> FALSE,
          request |-> SearchNewsRequest(query, categories, limit)]

\* search_news_by_uuid: the GET it issues
UuidRequest(uuid) ==
    [url |-> "https://api.thenewsapi.com/v1/news/uuid/",
     path |-> uuid,
     params |-> [api_token |-> AccessToken]]

\* search_news_by_uuid: keys
ArticleKeys == <<"uuid", "title", "snippet", "description", "url", "source">>

\* data[key], the subscript of a dict or of a list by a str
Subscript(data, key) ==
    CASE data.type = "dict" ->
             IF key \in DOMAIN data.obj THEN Returns(data.obj[key])
             ELSE Raises("KeyError")
      [] data.type = "list" -> Raises("TypeError")

\* {key: data[key] for key in keys}
RECURSIVE KeyedCopy(_, _, _)
KeyedCopy(data, keys, copied) ==
    IF keys = <<>>
    THEN Returns(PyDict([k \in copied |-> data.obj[k]]))
    ELSE LET value == Subscript(data, Head(keys))
         IN  IF value.exc # "none" THEN value
             ELSE KeyedCopy(data, Tail(keys), copied \cup {Head(keys)})

\* search_news_by_uuid: the try block after response.json()
UuidBody(data) ==
    IF Has(data, "error")
    THEN IF data.obj["error"].type # "dict" THEN Raises("AttributeError")
         ELSE Returns(EmptyList)
    ELSE IF Has(data, "warnings") /\ data.obj["warnings"].type # "dict"
    THEN Raises("AttributeError")
    ELSE KeyedCopy(data, ArticleKeys, {})

\* the handlers without the catch-all
UuidExceptNoCatchAll ==
    <<"Timeout", "ConnectionError", "HTTPError", "RequestException",
      "ValueError">>

\* search_news_by_uuid: the except clauses, in order
UuidExcept ==
    <<"Timeout", "ConnectionError", "HTTPError", "RequestException",
      "ValueError", "Exception">>

\* search_news_by_uuid: from the answer to the return value
UuidReturn(resp) ==
    LET json == ResponseJson(resp)
    IN  TryExcept(IF json.exc # "none" THEN json ELSE UuidBody(json.val),
                  UuidExcept)

\* a clamp without the cap
SimilarLimitUncapped(limit) == IF limit <= 0 THEN DefaultLimit ELSE limit

\* search_similar_news_by_uuid: the clamp of limit
SimilarLimit(limit) ==
    IF limit <= 0 THEN DefaultLimit
    ELSE IF limit > LimitCap THEN LimitCap
    ELSE limit

\* search_similar_news_by_uuid: the GET it issues
SimilarRequest(uuid, limit, categories) ==
    [url |-> "https://api.thenewsapi.com/v1/news/similar/",
     path |-> uuid,
     params |-> [api_token |-> AccessToken,
                 limit |-> SimilarLimit(limit),
                 categories |-> categories,
                 domains |-> Domains,
                 language |-> Languages]]

\* search_similar_news_by_uuid: the Article dict built from one upstream item
SimilarArticle(item, title) ==
    PyDict([title |-> title,
            description |-> Get(item, "description", PyStr("")),
            snippet |-> Get(item, "snippet", PyStr("")),
            uuid |-> Get(item, "uuid", PyInt(0)),
            source |-> Get(item, "source", PyInt(0)),
            published_at |-> Get(item, "published_at", PyStr("")),
            url |-> Get(item, "url", PyStr(""))])

\* search_similar_news_by_uuid: "if not title: continue", negated
SimilarHasTitle(title) == Truthy(title)

\* search_similar_news_by_uuid: the loop over search_results
RECURSIVE SimilarMapItems(_, _)
SimilarMapItems(search_results, results) ==
    IF search_results = <<>> THEN Returns(PyList(results))
    ELSE LET item == Head(search_results)
         IN  IF item.type # "dict" THEN Raises("AttributeError")
             ELSE LET title == Get(item.obj, "title", PyNone)
                  IN  IF ~SimilarHasTitle(title)
                      THEN SimilarMapItems(Tail(search_results), results)
                      ELSE SimilarMapItems(
                               Tail(search_results),
                               Append(results, SimilarArticle(item.obj, title)))

\* search_similar_news_by_uuid: the try block after response.json()
SimilarBody(data) ==
    IF Has(data, "error")
    THEN IF data.obj["error"].type # "dict" THEN Raises("AttributeError")
         ELSE Returns(EmptyList)
    ELSE IF Has(data, "warnings") /\ data.obj["warnings"].type # "dict"
    THEN Raises("AttributeError")
    ELSE IF data.type # "dict" THEN Raises("AttributeError")
    ELSE LET search_results == Get(data.obj, "data", EmptyList)
         IN  IF search_results.type # "list" THEN Raises("TypeError")
             ELSE SimilarMapItems(search_results.items, <<>>)

\* search_similar_news_by_uuid: the except clauses, in order
SimilarExcept ==
    <<"Timeout", "ConnectionError", "HTTPError", "RequestException",
      "ValueError", "Exception">>

\* search_similar_news_by_uuid: from the answer to the return value
SimilarReturn(resp) ==
    LET json == ResponseJson(resp)
    IN  TryExcept(IF json.exc # "none" THEN json ELSE SimilarBody(json.val),
                  SimilarExcept)

-----------------------------------------------------------------------------
(* server.py: the tools *)

NoResultsMessage ==
    "No search results found. This could indicate connectivity issues, API errors, or simply no matching articles."

\* a guard that forgets the strip
SearchRejectsOnlyEmpty(query) == query = <<>>

\* search: "if not query or not query.strip()"
SearchRejects(query) == Blank(query)

\* search: the envelope of a blank query
SearchErrorEnvelope(query) ==
    [query |-> query,
     results |-> EmptyList,
     status |-> "error",
     message |-> "Empty search query provided"]

\* search: validated_limit
ValidatedLimit(limit) ==
    IF limit <= 0 THEN DefaultLimit
    ELSE IF limit > LimitCap THEN LimitCap
    ELSE limit

\* an envelope that reports an empty list as an error
SearchEnvelopeEmptyIsError(query, results) ==
    [query |-> query,
     results |-> results,
     status |-> IF Truthy(results) THEN "success" ELSE "error",
     count |-> Len(results.items),
     message |-> NoResultsMessage]

\* search: the envelope around the client's results
SearchEnvelope(query, results) ==
    LET status == IF Truthy(results) THEN "success" ELSE "no_results"
        resp == [query |-> query,
                 results |-> results,
                 status |-> status,
                 count |-> Len(results.items)]
    IN  IF ~Truthy(results)
        THEN [k \in DOMAIN resp \cup {"message"} |->
                IF k = "message" THEN NoResultsMessage ELSE resp[k]]
        ELSE resp

\* get_article: "if not uuid or not uuid.strip()"
ArticleRejects(uuid) == Blank(uuid)

\* get_article: the envelope of a blank uuid
ArticleErrorEnvelope(uuid) ==
    [uuid |-> uuid,
     results |-> EmptyList,
     status |-> "error",
     message |-> "Empty search query provided"]

\* get_article: the envelope around the client's result
ArticleEnvelope(uuid, result) ==
    LET status == IF Truthy(result) THEN "success" ELSE "no_results"
        resp == [uuid |-> uuid, result |-> result, status |-> status]
    IN  IF ~Truthy(result)
        THEN [k \in DOMAIN resp \cup {"message"} |->
                IF k = "message" THEN NoResultsMessage ELSE resp[k]]
        ELSE resp

-----------------------------------------------------------------------------
(* The inputs tried *)

Pad(n, c) == [i \in 1..n |-> c]

\* a query body of n characters with blanks inside it, none at either end
QueryBody(n) ==
    [i \in 1..n |-> IF i % 9 = 0 THEN " " ELSE IF i % 2 = 0 THEN "b" ELSE "a"]

QueryBodyLens == {0, 2, MaxQueryLen, MaxQueryLen + 1}

\* the runs of blanks before and after a body
Pads == {<<0, 0>>, <<MaxPad, 0>>, <<0, MaxPad>>, <<MaxPad, MaxPad + 1>>}

Queries ==
    {Pad(p[1], " ") \o QueryBody(n) \o Pad(p[2], "\t") :
        p \in Pads, n \in QueryBodyLens}

Uuids ==
    {Pad(p[1], " ") \o b \o Pad(p[2], "\t") :
        p \in Pads, b \in {<<>>, <<"3", "d", "d">>}}

\* search_similar_news_by_uuid does not look at its uuid
SimilarUuids == {<<"3", "d", "d">>, <<" ">>}

Limits == (0 - 1)..MaxLimitArg

CategoryArgs == {PyNone, PyList(<<PyStr("tech")>>)}

\* upstream items: every field, a title only, no title, an empty title
ItemFull ==
    PyDict([title |-> PyStr("T1"), description |-> PyStr("d1"),
            snippet |-> PyStr("s1"), uuid |-> PyStr("u1"),
            published_at |-> PyStr("p1"), url |-> PyStr("l1"),
            source |-> PyStr("src1")])
ItemTitleOnly == PyDict([title |-> PyStr("T2")])
ItemNoTitle == PyDict([uuid |-> PyStr("u3"), url |-> PyStr("l3")])
ItemEmptyTitle == PyDict([title |-> PyStr(""), uuid |-> PyStr("u4")])
ItemNullTitle == PyDict([title |-> PyNone, uuid |-> PyStr("u5")])

Items == {ItemFull, ItemTitleOnly, ItemNoTitle}
FalsyTitleItems == {ItemEmptyTitle, ItemNullTitle}

\* the "data" arrays: every list of Items up to MaxItems, and the short lists
\* that also hold an empty or null title
DataLists ==
    UNION {[1..n -> Items] : n \in 0..MaxItems}
    \cup UNION {[1..n -> {ItemFull} \cup FalsyTitleItems] : n \in 1..2}
ShortLists == {d \in DataLists : Len(d) <= 1}

ErrorInfo == PyDict([code |-> PyStr("rate_limit"), info |-> PyStr("slow down")])
Warnings == PyDict([limit |-> PyStr("capped")])
Meta == PyDict([found |-> PyInt(0)])

\* bodies of /v1/news/all and /v1/news/similar of the documented shape
ListBodies ==
    {PyDict([data |-> PyList(d)]) : d \in DataLists}
    \cup {PyDict([data |-> PyList(d), warnings |-> Warnings]) : d \in ShortLists}
    \cup {PyDict([meta |-> Meta])}

\* the same with an error field
ErrorBodies ==
    {PyDict([error |-> ErrorInfo, data |-> PyList(d)]) : d \in ShortLists}
    \cup {PyDict([error |-> ErrorInfo])}

\* JSON of another shape
MalformedBodies ==
    {PyDict([data |-> PyNone]),
     PyDict([data |-> PyList(<<ItemFull, PyStr("junk")>>)]),
     PyDict([data |-> PyList(<<ItemFull>>), warnings |-> PyStr("w")]),
     PyDict([error |-> PyStr("boom")]),
     PyList(<<ItemFull>>)}

\* bodies of /v1/news/uuid: a flat record with any of its keys missing
UuidKeys == {"uuid", "title", "snippet", "description", "url", "source"}
UuidBodies ==
    {PyDict([k \in K \cup {"published_at"} |-> PyStr("v")]) : K \in SUBSET UuidKeys}
    \cup {PyDict([k \in UuidKeys \cup {"warnings"} |->
                    IF k = "warnings" THEN Warnings ELSE PyStr("v")]),
          PyDict([k \in UuidKeys \cup {"error"} |->
                    IF k = "error" THEN ErrorInfo ELSE PyStr("v")])}

FailureKinds == {"timeout", "connection_error", "http_error", "invalid_json"}
Failures == {[kind |-> k, body |-> PyNone] : k \in FailureKinds}
Json(bodies) == {[kind |-> "json", body |-> b] : b \in bodies}

\* what the upstream may answer to the request of each operation
Responses(o) ==
    Failures \cup
    IF o = "get_article"
    THEN Json(UuidBodies \cup ErrorBodies \cup MalformedBodies)
    ELSE Json(ListBodies \cup ErrorBodies \cup MalformedBodies)

-----------------------------------------------------------------------------
(* The state machine *)

NoArgs == [none |-> TRUE]
NoRequest == [url |-> "none"]
NoResponse == [kind |-> "none", body |-> PyNone]
\* nothing returned yet
Pending == [exc |-> "pending", val |-> PyNone]

Init ==
    /\ pc = "idle"
    /\ op = "none"
    /\ args = NoArgs
    /\ request = NoRequest
    /\ sent = 0
    /\ response = NoResponse
    /\ gw = Pending
    /\ ret = Pending

\* the client sends the GET and blocks on it
Send(req) ==
    /\ request' = req
    /\ sent' = sent + 1
    /\ pc' = "waiting"
    /\ UNCHANGED <<response, gw, ret>>

\* tool search, up to its return or to the GET
search(query, limit, categories) ==
    /\ pc = "idle"
    /\ op' = "search"
    /\ args' = [query |-> query, limit |-> limit, categories |-> categories]
    /\ IF SearchRejects(query)
       THEN /\ ret' = Returns(SearchErrorEnvelope(query))
            /\ pc' = "done"
            /\ UNCHANGED <<request, sent, response, gw>>
       ELSE LET call == SearchNewsCall(query, categories, ValidatedLimit(limit))
            IN  IF call.returned
                THEN /\ gw' = call.out
                     /\ ret' = Returns(SearchEnvelope(query, call.out.val))
                     /\ pc' = "done"
                     /\ UNCHANGED <<request, sent, response>>
                ELSE Send(call.request)

\* a handler that sends the GET again after a failed one
search_returns_retrying ==
    /\ pc = "responded"
    /\ op = "search"
    /\ IF response.kind # "json" /\ sent < 2
       THEN /\ Send(request)
            /\ UNCHANGED <<op, args>>
       ELSE /\ LET out == SearchNewsReturn(response)
               IN  /\ gw' = out
                   /\ ret' = IF out.exc = "none"
                             THEN Returns(SearchEnvelope(args.query, out.val))
                             ELSE out
            /\ pc' = "done"
            /\ UNCHANGED <<op, args, request, sent, response>>

\* tool search, from the answer to its return
search_returns ==
    /\ pc = "responded"
    /\ op = "search"
    /\ LET out == SearchNewsReturn(response)
       IN  /\ gw' = out
           /\ ret' = IF out.exc = "none"
                     THEN Returns(SearchEnvelope(args.query, out.val))
                     ELSE out
    /\ pc' = "done"
    /\ UNCHANGED <<op, args, request, sent, response>>

\* tool get_article, up to its return or to the GET
get_article(uuid) ==
    /\ pc = "idle"
    /\ op' = "get_article"
    /\ args' = [uuid |-> uuid]
    /\ IF ArticleRejects(uuid)
       THEN /\ ret' = Returns(ArticleErrorEnvelope(uuid))
            /\ pc' = "done"
            /\ UNCHANGED <<request, sent, response, gw>>
       ELSE Send(UuidRequest(uuid))

\* tool get_article, from the answer to its return
get_article_returns ==
    /\ pc = "responded"
    /\ op = "get_article"
    /\ LET out == UuidReturn(response)
       IN  /\ gw' = out
           /\ ret' = IF out.exc = "none"
                     THEN Returns(ArticleEnvelope(args.uuid, out.val))
                     ELSE out
    /\ pc' = "done"
    /\ UNCHANGED <<op, args, request, sent, response>>

\* TheNewsAPIClient.search_news called on its own (tests/test_api.py)
search_news(query, categories, limit) ==
    /\ pc = "idle"
    /\ op' = "search_news"
    /\ args' = [query |-> query, limit |-> limit, categories |-> categories]
    /\ LET call == SearchNewsCall(query, categories, limit)
       IN  IF call.returned
           THEN /\ gw' = call.out
                /\ pc' = "done"
                /\ UNCHANGED <<request, sent, response, ret>>
           ELSE Send(call.request)

search_news_returns ==
    /\ pc = "responded"
    /\ op = "search_news"
    /\ gw' = SearchNewsReturn(response)
    /\ pc' = "done"
    /\ UNCHANGED <<op, args, request, sent, response, ret>>

\* TheNewsAPIClient.search_similar_news_by_uuid, which no tool calls
search_similar_news_by_uuid(uuid, limit, categories) ==
    /\ pc = "idle"
    /\ op' = "similar"
    /\ args' = [uuid |-> uuid, limit |-> limit, categories |-> categories]
    /\ Send(SimilarRequest(uuid, limit, categories))

search_similar_news_by_uuid_returns ==
    /\ pc = "responded"
    /\ op = "similar"
    /\ gw' = SimilarReturn(response)
    /\ pc' = "done"
    /\ UNCHANGED <<op, args, request, sent, response, ret>>

\* the upstream answers the GET, or the transport gives up on it
UpstreamResponds ==
    /\ pc = "waiting"
    /\ \E resp \in Responses(op) : response' = resp
    /\ pc' = "responded"
    /\ UNCHANGED <<op, args, request, sent, gw, ret>>

\* the caller has the outcome; the next invocation starts from scratch
NextInvocation ==
    /\ pc = "done"
    /\ pc' = "idle"
    /\ op' = "none"
    /\ args' = NoArgs
    /\ request' = NoRequest
    /\ sent' = 0
    /\ response' = NoResponse
    /\ gw' = Pending
    /\ ret' = Pending

Next ==
    \/ \E q \in Queries, l \in Limits, c \in CategoryArgs : search(q, l, c)
    \/ search_returns
    \/ \E u \in Uuids : get_article(u)
    \/ get_article_returns
    \/ \E q \in Queries, l \in Limits, c \in CategoryArgs : search_news(q, c, l)
    \/ search_news_returns
    \/ \E u \in SimilarUuids, l \in Limits, c \in CategoryArgs :
           search_similar_news_by_uuid(u, l, c)
    \/ search_similar_news_by_uuid_returns
    \/ UpstreamResponds
    \/ NextInvocation

Spec == Init /\ [][Next]_vars

\* the handlers run to their return once the answer is there; nothing makes
\* the upstream answer
FairSpec ==
    /\ Spec
    /\ WF_vars(search_returns)
    /\ WF_vars(get_article_returns)
    /\ WF_vars(search_news_returns)
    /\ WF_vars(search_similar_news_by_uuid_returns)
    /\ WF_vars(NextInvocation)

TypeOK ==
    /\ pc \in {"idle", "waiting", "responded", "done"}
    /\ op \in {"none", "search", "get_article", "search_news", "similar"}
    /\ sent \in 0..1

-----------------------------------------------------------------------------
(* Vocabulary of the properties, stated without the operators of the model *)

\* s is empty or holds blanks only
AllBlank(s) == \A i \in 1..Len(s) : s[i] \in {" ", "\t"}

\* the first and the last position of s that hold no blank (s not AllBlank)
FirstInk(s) ==
    CHOOSE i \in 1..Len(s) :
        s[i] \notin {" ", "\t"} /\ \A k \in 1..(i - 1) : s[k] \in {" ", "\t"}
LastInk(s) ==
    CHOOSE j \in 1..Len(s) :
        s[j] \notin {" ", "\t"} /\ \A k \in (j + 1)..Len(s) : s[k] \in {" ", "\t"}

\* the limit the upstream is to see for a limit argument
Clamped(limit) == IF limit <= 0 THEN 1 ELSE IF limit > 3 THEN 3 ELSE limit

ToolOps == {"search", "get_article"}
PrimaryArg == IF op = "search" THEN args.query ELSE args.uuid

-----------------------------------------------------------------------------
(* C1: a tool whose primary argument (query of search, uuid of get_article)  *)
(* is empty or blank returns an envelope with status "error" and a message, *)
(* and no HTTP request is issued, whatever the other arguments are.          *)
C1_BlankRejected ==
    (op \in ToolOps /\ AllBlank(PrimaryArg)) =>
        /\ pc = "done"
        /\ sent = 0
        /\ request = NoRequest
        /\ ret.exc = "none"
        /\ ret.val.status = "error"
        /\ "message" \in DOMAIN ret.val
        /\ ret.val.message # ""

C1_Witness ==
    /\ pc = "done"
    /\ op = "search"
    /\ args.query = <<" ", "\t", "\t">>
    /\ args.limit = 5
    /\ args.categories # PyNone
    /\ ret.val.status = "error"
    /\ sent = 0

(* C2: the limit sent upstream by search (tool, then search_news), by        *)
(* search_news and by search_similar_news_by_uuid is 1 for a limit <= 0, 3  *)
(* for a limit > 3 and the limit itself otherwise, so it is always in 1..3.  *)
C2_LimitClamped ==
    (op \in {"search", "search_news", "similar"} /\ request # NoRequest) =>
        /\ request.params.limit = Clamped(args.limit)
        /\ request.params.limit \in 1..3

C2_Witness ==
    /\ pc = "waiting"
    /\ op = "similar"
    /\ args.limit = 5
    /\ request.params.limit = 3

(* C3: for a query that is not blank, the search text sent upstream is the   *)
(* query without the blanks around it when that has at most 300 characters, *)
(* and its first 100 characters when it has more than 300.                   *)
C3_SearchText ==
    (pc = "waiting" /\ op \in {"search", "search_news"}
        /\ ~AllBlank(args.query)) =>
        LET q == args.query
            i == FirstInk(q)
            j == LastInk(q)
        IN  request.params.search =
                IF j - i + 1 > 300 THEN SubSeq(q, i, i + 99) ELSE SubSeq(q, i, j)

C3_Witness ==
    /\ pc = "waiting"
    /\ op = "search"
    /\ args.query[1] = " "
    /\ args.query[Len(args.query)] = "\t"
    /\ Len(args.query) > 302
    /\ Len(request.params.search) = 100
    /\ request.params.search[99] = " "

\* a query of exactly 300 characters between its blanks is sent whole
C3_WitnessWhole ==
    /\ pc = "waiting"
    /\ op = "search"
    /\ args.query[1] = " "
    /\ Len(request.params.search) = 300

-----------------------------------------------------------------------------
\* the answer is a JSON object
JsonObject == response.kind = "json" /\ response.body.type = "dict"

\* the answer is a JSON object that carries an error field
ErrorField == JsonObject /\ "error" \in DOMAIN response.body.obj

\* the answer is a success of the documented shape: no error field, warnings
\* (if any) an object, data (if any) an array of objects
Successful ==
    /\ JsonObject
    /\ ~ErrorField
    /\ "warnings" \in DOMAIN response.body.obj =>
           response.body.obj["warnings"].type = "dict"
    /\ "data" \in DOMAIN response.body.obj =>
           /\ response.body.obj["data"].type = "list"
           /\ \A i \in 1..Len(response.body.obj["data"].items) :
                  response.body.obj["data"].items[i].type = "dict"

\* the upstream items of a Successful answer
UpstreamItems ==
    IF "data" \in DOMAIN response.body.obj
    THEN response.body.obj["data"].items
    ELSE <<>>

\* the item carries a title that is a non-empty string
Titled(item) ==
    /\ "title" \in DOMAIN item.obj
    /\ item.obj["title"].type = "str"
    /\ item.obj["title"].s # ""

TitledAt == {i \in 1..Len(UpstreamItems) : Titled(UpstreamItems[i])}

\* the position of the k-th titled item
KthTitled(k) ==
    CHOOSE i \in TitledAt : Cardinality({j \in TitledAt : j <= i}) = k

ListOps == {"search", "search_news", "similar"}

(* C4: on a successful answer, search_news and                               *)
(* search_similar_news_by_uuid return, in upstream order, one Article for    *)
(* each upstream item with a non-empty title and none for an item whose      *)
(* title is missing or empty; the length of the list is the number of        *)
(* upstream items with a non-empty title.                                    *)
C4_TitledItemsOnly ==
    (pc = "done" /\ op \in ListOps /\ response # NoResponse /\ Successful) =>
        /\ gw.exc = "none"
        /\ gw.val.type = "list"
        /\ Len(gw.val.items) = Cardinality(TitledAt)
        /\ \A k \in 1..Len(gw.val.items) :
               LET item == UpstreamItems[KthTitled(k)].obj
                   article == gw.val.items[k].obj
               IN  /\ article.title = item["title"]
                   /\ "uuid" \in DOMAIN item => article.uuid = item["uuid"]
                   /\ "url" \in DOMAIN item => article.url = item["url"]

C4_Witness ==
    /\ pc = "done"
    /\ op = "similar"
    /\ Successful
    /\ UpstreamItems = <<ItemTitleOnly, ItemNoTitle, ItemFull, ItemTitleOnly>>
    /\ Len(gw.val.items) = 3
    /\ gw.val.items[2].obj.title = PyStr("T1")

\* an item with an empty title is left out as well
C4_WitnessEmptyTitle ==
    /\ pc = "done"
    /\ op = "search_news"
    /\ Successful
    /\ UpstreamItems = <<ItemEmptyTitle, ItemFull>>
    /\ Len(gw.val.items) = 1

(* C5: search_news returns the empty list, and no exception leaves it, for   *)
(* every failure of its one upstream call: a timeout, a connection failure, *)
(* an HTTP error status, a body that is not JSON, and a payload with an      *)
(* error field, also when that payload carries data items.                   *)
C5_FailuresContained ==
    (pc = "done" /\ op \in {"search", "search_news"}
        /\ (response.kind \in
                {"timeout", "connection_error", "http_error", "invalid_json"}
            \/ ErrorField)) =>
        gw = Returns(EmptyList)

C5_Witness ==
    /\ pc = "done"
    /\ op = "search_news"
    /\ response.kind = "timeout"
    /\ gw = Returns(EmptyList)

\* the error field wins over data items in the same payload
C5_WitnessErrorWithData ==
    /\ pc = "done"
    /\ op = "search_news"
    /\ ErrorField
    /\ "data" \in DOMAIN response.body.obj
    /\ response.body.obj["data"].items = <<ItemFull>>
    /\ gw = Returns(EmptyList)

(* C6: for a search whose query is not blank, status is "success" exactly    *)
(* when the list search_news returned is not empty; otherwise it is          *)
(* "no_results" with count 0, no results and a non-empty message.  Status is *)
(* never "error" for such a query, whatever the upstream does.               *)
C6_SuccessIffResults ==
    (pc = "done" /\ op = "search" /\ ~AllBlank(args.query)) =>
        /\ ret.exc = "none"
        /\ gw.exc = "none"
        /\ ret.val.status \in {"success", "no_results"}
        /\ ret.val.status = "success" <=> gw.val.items # <<>>
        /\ ret.val.status = "no_results" =>
               /\ ret.val.count = 0
               /\ ret.val.results = EmptyList
               /\ "message" \in DOMAIN ret.val
               /\ ret.val.message # ""

C6_Witness ==
    /\ pc = "done"
    /\ op = "search"
    /\ response.kind = "http_error"
    /\ ret.val.status = "no_results"
    /\ ret.val.count = 0

\* every item without a title: no_results as well
C6_WitnessNoTitles ==
    /\ pc = "done"
    /\ op = "search"
    /\ Successful
    /\ UpstreamItems = <<ItemNoTitle, ItemNoTitle>>
    /\ ret.val.status = "no_results"

(* C7: every envelope a tool returns, in every outcome, carries the keys of  *)
(* its operation: search returns query, results, status and count, with      *)
(* count the length of results; get_article returns uuid (the argument),     *)
(* result and status; a message is there whenever the payload is empty or    *)
(* absent.                                                                   *)
C7_FullKeySet ==
    (pc = "done" /\ op \in ToolOps /\ ret.exc = "none") =>
        LET e == ret.val
        IN  IF op = "search"
            THEN /\ {"query", "results", "status", "count"} \subseteq DOMAIN e
                 /\ e.query = args.query
                 /\ e.count = Len(e.results.items)
                 /\ e.results.items = <<>> => "message" \in DOMAIN e
            ELSE /\ {"uuid", "result", "status"} \subseteq DOMAIN e
                 /\ e.uuid = args.uuid
                 /\ ~Truthy(e.result) => "message" \in DOMAIN e

\* what holds of the envelopes of the calls that pass validation
C7_KeySetWhenAccepted ==
    (pc = "done" /\ op \in ToolOps /\ ret.exc = "none"
        /\ ~AllBlank(PrimaryArg)) =>
        LET e == ret.val
        IN  IF op = "search"
            THEN /\ {"query", "results", "status", "count"} \subseteq DOMAIN e
                 /\ e.query = args.query
                 /\ e.count = Len(e.results.items)
                 /\ e.results.items = <<>> => "message" \in DOMAIN e
            ELSE /\ {"uuid", "result", "status"} \subseteq DOMAIN e
                 /\ e.uuid = args.uuid
                 /\ ~Truthy(e.result) => "message" \in DOMAIN e

-----------------------------------------------------------------------------
\* the answer to search_news_by_uuid is a success (no error field, warnings
\* an object) that lacks one of the keys the client copies
MissingKey ==
    /\ JsonObject
    /\ ~ErrorField
    /\ "warnings" \in DOMAIN response.body.obj =>
           response.body.obj["warnings"].type = "dict"
    /\ \E k \in {"uuid", "title", "snippet", "description", "url", "source"} :
           k \notin DOMAIN response.body.obj

\* the defaults search_news puts in for a field its item lacks
DefaultOf(k) == IF k \in {"uuid", "source"} THEN PyInt(0) ELSE PyStr("")

(* C8 as stated: when the upstream answers search_news_by_uuid successfully  *)
(* with a payload that lacks one of uuid, title, snippet, description, url,  *)
(* source, the failed lookup leaves the client as a hard failure of the      *)
(* call.                                                                     *)
C8_LookupFailurePropagates ==
    (pc = "done" /\ op = "get_article" /\ response # NoResponse /\ MissingKey)
        => gw.exc # "none"

(* C8 amended: the failed lookup is not defaulted but it is contained: the   *)
(* catch-all handler of search_news_by_uuid turns it into the empty list, no *)
(* exception leaves the client and get_article reports no_results with a     *)
(* message.  search_news never fails on a missing field: it puts a default   *)
(* in for a missing uuid, snippet, description, url or source, and leaves    *)
(* out an item without a title.                                              *)
C8_LookupFailureContained ==
    /\ (pc = "done" /\ op = "get_article" /\ response # NoResponse
            /\ MissingKey) =>
           /\ gw = Returns(EmptyList)
           /\ ret.exc = "none"
           /\ ret.val.status = "no_results"
           /\ ret.val.result = EmptyList
           /\ "message" \in DOMAIN ret.val
    /\ (pc = "done" /\ op \in {"search", "search_news"}
            /\ response # NoResponse /\ Successful) =>
           /\ gw.exc = "none"
           /\ \A k \in 1..Len(gw.val.items) :
                  \A f \in {"uuid", "snippet", "description", "url", "source"} :
                      LET item == UpstreamItems[KthTitled(k)].obj
                      IN  f \notin DOMAIN item =>
                              gw.val.items[k].obj[f] = DefaultOf(f)

C8_Witness ==
    /\ pc = "done"
    /\ op = "get_article"
    /\ MissingKey
    /\ DOMAIN response.body.obj =
           {"uuid", "title", "description", "url", "source", "published_at"}
    /\ gw = Returns(EmptyList)
    /\ ret.val.status = "no_results"

\* the same missing field in an item of search_news
C8_WitnessDefaulted ==
    /\ pc = "done"
    /\ op = "search"
    /\ Successful
    /\ UpstreamItems = <<ItemTitleOnly>>
    /\ gw.val.items[1].obj.snippet = PyStr("")
    /\ gw.val.items[1].obj.uuid = PyInt(0)

\* the number of items the upstream sent
UpstreamCount ==
    IF JsonObject /\ "data" \in DOMAIN response.body.obj
          /\ response.body.obj["data"].type = "list"
    THEN Len(response.body.obj["data"].items)
    ELSE 0

(* C9 as stated: for every query, limit and upstream answer, the results of  *)
(* the envelope of search hold at most 3 articles and at most the clamped    *)
(* limit.                                                                    *)
C9_HardResultCap ==
    (pc = "done" /\ op = "search" /\ ret.exc = "none") =>
        /\ Len(ret.val.results.items) <= 3
        /\ Len(ret.val.results.items) <= Clamped(args.limit)

(* C9 amended: search caps the limit it asks for, not the answer: the limit  *)
(* sent upstream is the clamped limit, at most 3, and whenever the upstream  *)
(* sends no more items than that limit the results hold at most the clamped  *)
(* limit, so count <= 3; a call with limit 5 reports count 3 when the        *)
(* upstream sends three items with a title.                                  *)
C9_CapWhenUpstreamHonoursLimit ==
    (pc = "done" /\ op = "search" /\ ret.exc = "none"
        /\ response # NoResponse) =>
        /\ request.params.limit = Clamped(args.limit)
        /\ UpstreamCount <= request.params.limit =>
               /\ Len(ret.val.results.items) <= Clamped(args.limit)
               /\ ret.val.count <= 3

C9_Witness ==
    /\ pc = "done"
    /\ op = "search"
    /\ args.limit = 5
    /\ UpstreamCount = 3
    /\ ret.val.count = 3
    /\ ret.val.status = "success"

\* an upstream that sends more than it was asked for gets all of it through
C9_WitnessOverlong ==
    /\ pc = "done"
    /\ op = "search"
    /\ args.limit = 5
    /\ ret.val.status = "success"
    /\ ret.val.count = 4

(* C10: every tool invocation that has sent its GET eventually returns, also *)
(* when the upstream never answers (the GET is bounded by a timeout).        *)
C10_EventuallyReturns ==
    (pc = "waiting" /\ op \in ToolOps) ~> (pc = "done")

-----------------------------------------------------------------------------
(* C11: an invocation of search or get_article issues at most one HTTP       *)
(* request over its whole life: none when its input is rejected, exactly one *)
(* when it passes validation; the count stays at one while the call waits,   *)
(* once the answer or the failure is there and when the envelope is          *)
(* returned, so no request is repeated after a failed one.                   *)
C11_OneRequestPerCall ==
    op \in ToolOps =>
        /\ sent <= 1
        /\ sent = IF AllBlank(PrimaryArg) THEN 0 ELSE 1
        /\ sent = 0 <=> request = NoRequest
        /\ pc = "done" => ret # Pending

C11_Witness ==
    /\ pc = "done"
    /\ op = "search"
    /\ response.kind = "timeout"
    /\ sent = 1
    /\ ret.exc = "none"
    /\ ret.val.status = "no_results"

\* the rejected call: no request at all
C11_WitnessRejected ==
    /\ pc = "done"
    /\ op = "get_article"
    /\ args.uuid = <<" ">>
    /\ sent = 0
    /\ ret.val.status = "error"

====
